---- MODULE Spec2Model ----
(***************************************************************************)
(* A model of the directory synchronizer of python/file_syncer.py          *)
(* (class FileSyncer).  One run of synchronize() is a sequence of steps:   *)
(* Begin (root checks), ScanAndPlan (listing, filter, conflicts, plan),    *)
(* one step per executed plan operation, Finish.  NewSyncer starts the     *)
(* next run on the trees the previous run left behind.                     *)
(*                                                                         *)
(* Paths and glob patterns are sequences of one-character strings.  A tree *)
(* is a function from the relative paths that exist (the root is <<>>) to  *)
(* nodes.                                                                  *)
(***************************************************************************)
EXTENDS Integers, Sequences, FiniteSets, TLC

(***************************************************************************)
(* Bounds of the model.                                                    *)
(***************************************************************************)
MaxRuns == 2      \* synchronize() runs in one behaviour
MaxFaults == 1    \* storage failures injected in one behaviour
MaxTime == 3      \* the largest modification time of an initial file

(***************************************************************************)
(* Program constants.                                                      *)
(***************************************************************************)
Tolerance == 2    \* the 2-second slack of _compare_files / _detect_conflicts

ONE_WAY == "one-way"
TWO_WAY == "two-way"
MIRROR == "mirror"
SyncMode == {ONE_WAY, TWO_WAY, MIRROR}

COPY == "copy"
UPDATE == "update"
DELETE == "delete"
CONFLICT == "conflict"
SKIP == "skip"
FileAction == {COPY, UPDATE, DELETE, CONFLICT, SKIP}

PT_LOCAL == "local"
PT_REMOTE == "remote"
PathType == {PT_LOCAL, PT_REMOTE}

(***************************************************************************)
(* Strings.                                                                *)
(***************************************************************************)
Sep == "/"

\* The characters in the order Python compares them (code points).
Alphabet == <<"*", ".", "/", "0", "1", "2", "3", "4", "5", "6", "7", "8",
              "9", "?", "a", "b", "d", "k", "t">>

Rank(c) == CHOOSE i \in 1..Len(Alphabet) : Alphabet[i] = c

RECURSIVE StrLess(_, _)
StrLess(s, t) ==
    IF t = <<>> THEN FALSE
    ELSE IF s = <<>> THEN TRUE
    ELSE IF Head(s) = Head(t) THEN StrLess(Tail(s), Tail(t))
    ELSE Rank(Head(s)) < Rank(Head(t))

\* Index of the last separator of p, 0 when there is none.
RECURSIVE LastSep(_, _)
LastSep(p, i) ==
    IF i = 0 THEN 0
    ELSE IF p[i] = Sep THEN i
    ELSE LastSep(p, i - 1)

\* os.path.basename
Basename(p) == SubSeq(p, LastSep(p, Len(p)) + 1, Len(p))

\* os.path.dirname of a path below the root, relative to the root:
\* the root itself is <<>>.
Dirname(p) ==
    LET i == LastSep(p, Len(p))
    IN IF i = 0 THEN <<>> ELSE SubSeq(p, 1, i - 1)

\* os.path.join of a directory and a name, relative to the root.
Join(dir, name) == IF dir = <<>> THEN name ELSE dir \o <<Sep>> \o name

IsPrefix(s, t) == Len(s) <= Len(t) /\ SubSeq(t, 1, Len(s)) = s

\* p lies strictly below directory dir.
Below(dir, p) ==
    IF dir = <<>> THEN p # <<>> ELSE IsPrefix(dir \o <<Sep>>, p)

\* fnmatch.fnmatch on a POSIX host, for patterns of literals, * and ?:
\* * matches any run of characters (separators included), ? exactly one.
RECURSIVE fnmatch(_, _)
fnmatch(name, pat) ==
    IF pat = <<>> THEN name = <<>>
    ELSE IF Head(pat) = "*"
         THEN fnmatch(name, Tail(pat))
              \/ (name # <<>> /\ fnmatch(Tail(name), pat))
    ELSE /\ name # <<>>
         /\ (Head(pat) = "?" \/ Head(pat) = Head(name))
         /\ fnmatch(Tail(name), Tail(pat))

(***************************************************************************)
(* _should_include_file: the two pattern loops, each with its early return.*)
(***************************************************************************)
RECURSIVE AnyPatternMatches(_, _, _)
AnyPatternMatches(filepath, filename, patterns) ==
    IF patterns = <<>> THEN FALSE
    ELSE IF fnmatch(filepath, Head(patterns)) \/ fnmatch(filename, Head(patterns))
         THEN TRUE
    ELSE AnyPatternMatches(filepath, filename, Tail(patterns))

\* A variant of the filter that matches base names only; C5 tells it from
\* the code's filter.
ShouldIncludeFileBaseOnly(filepath, exclude_patterns, include_patterns) ==
    LET filename == Basename(filepath)
    IN IF AnyPatternMatches(filename, filename, exclude_patterns) THEN FALSE
       ELSE IF include_patterns # <<>>
            THEN AnyPatternMatches(filename, filename, include_patterns)
       ELSE TRUE

ShouldIncludeFile(filepath, exclude_patterns, include_patterns) ==
    LET filename == Basename(filepath)
    IN IF AnyPatternMatches(filepath, filename, exclude_patterns) THEN FALSE
       ELSE IF include_patterns # <<>>
            THEN AnyPatternMatches(filepath, filename, include_patterns)
       ELSE TRUE

(***************************************************************************)
(* Files, directories and trees.                                           *)
(*                                                                         *)
(* A file's data is a sequence of bytes; its size is the length.  The      *)
(* modification time of a directory is not modelled (0): with non-empty    *)
(* files no comparison of the program reads it.                            *)
(***************************************************************************)
FileNode(data, mtime) == [is_dir |-> FALSE, data |-> data, mtime |-> mtime]
DirNode == [is_dir |-> TRUE, data |-> <<>>, mtime |-> 0]

Size(node) == IF node.is_dir THEN 0 ELSE Len(node.data)

NoTree == [q \in {} |-> DirNode]      \* the root does not exist
EmptyTree == (<<>> :> DirNode)       \* an empty root directory

Exists(fs, p) == p \in DOMAIN fs
IsDir(fs, p) == Exists(fs, p) /\ fs[p].is_dir
IsFile(fs, p) == Exists(fs, p) /\ ~fs[p].is_dir

Children(fs, dir) == {p \in DOMAIN fs : p # <<>> /\ Dirname(p) = dir}

\* The root, the directories above p, and p itself.
RECURSIVE AncestorsOrSelf(_)
AncestorsOrSelf(p) ==
    IF p = <<>> THEN {<<>>} ELSE {p} \cup AncestorsOrSelf(Dirname(p))

Without(fs, gone) == [q \in DOMAIN fs \ gone |-> fs[q]]

Failed(fs) == [ok |-> FALSE, fs |-> fs]
Done(fs) == [ok |-> TRUE, fs |-> fs]

\* A file can be opened for writing at p: the parent is a directory and p
\* is not one.
Writable(fs, p) == p # <<>> /\ IsDir(fs, Dirname(p)) /\ ~IsDir(fs, p)

\* os.makedirs(p, exist_ok=True)
os_makedirs(fs, p) ==
    IF \E q \in AncestorsOrSelf(p) : IsFile(fs, q) THEN Failed(fs)
    ELSE Done([q \in AncestorsOrSelf(p) \ DOMAIN fs |-> DirNode] @@ fs)

\* shutil.copy2(src, dst): a dst that is a directory receives the file
\* under the source's base name; data and modification time are copied.
shutil_copy2(fs, node, name, dst) ==
    LET target == IF IsDir(fs, dst) THEN Join(dst, name) ELSE dst
    IN IF node.is_dir \/ ~Writable(fs, target) THEN Failed(fs)
       ELSE Done((target :> FileNode(node.data, node.mtime)) @@ fs)

\* open(dst, 'wb') and the chunked write loop; also SFTPClient.put and
\* SFTPClient.open(dst, 'wb'): the file is rewritten at time now.
write_file(fs, node, dst, now) ==
    IF node.is_dir \/ ~Writable(fs, dst) THEN Failed(fs)
    ELSE Done((dst :> FileNode(node.data, now)) @@ fs)

\* os.unlink, SFTPClient.remove
os_unlink(fs, p) ==
    IF IsFile(fs, p) THEN Done(Without(fs, {p})) ELSE Failed(fs)

\* shutil.rmtree
shutil_rmtree(fs, p) ==
    IF IsDir(fs, p)
    THEN Done(Without(fs, {q \in DOMAIN fs : q = p \/ Below(p, q)}))
    ELSE Failed(fs)

\* SFTPClient.mkdir
sftp_mkdir(fs, p) ==
    IF Exists(fs, p) \/ ~IsDir(fs, Dirname(p)) THEN Failed(fs)
    ELSE Done((p :> DirNode) @@ fs)

(***************************************************************************)
(* _list_files.                                                            *)
(***************************************************************************)
Entry(fs, p) ==
    [path |-> p, size |-> Size(fs[p]), mtime |-> fs[p].mtime,
     is_dir |-> fs[p].is_dir]

\* The paths of a set in the order the directory scan returns them.
RECURSIVE InScanOrder(_)
InScanOrder(S) ==
    IF S = {} THEN <<>>
    ELSE LET first == CHOOSE p \in S : \A q \in S \ {p} : StrLess(p, q)
         IN <<first>> \o InScanOrder(S \ {first})

RECURSIVE Flatten(_)
Flatten(seqs) ==
    IF seqs = <<>> THEN <<>> ELSE Head(seqs) \o Flatten(Tail(seqs))

\* os.walk, top down: the files of a directory, then its directories,
\* then the walk of each of these directories.
RECURSIVE os_walk(_, _)
os_walk(fs, dir) ==
    LET filenames == InScanOrder({p \in Children(fs, dir) : ~fs[p].is_dir})
        dirs == InScanOrder({p \in Children(fs, dir) : fs[p].is_dir})
    IN [i \in 1..Len(filenames) |-> Entry(fs, filenames[i])]
       \o [i \in 1..Len(dirs) |-> Entry(fs, dirs[i])]
       \o Flatten([i \in 1..Len(dirs) |-> os_walk(fs, dirs[i])])

\* list_remote_dir: listdir_attr, then for the first item the test
\* stat.S_ISDIR(...) reads the name stat, which is a local variable of
\* _list_files that the remote branch never assigns (the module stat is
\* not imported): NameError, caught by the handler of list_remote_dir,
\* which returns [].  An empty directory returns [] as well.
list_remote_dir(fs, remote_dir) ==
    IF Children(fs, remote_dir) = {} THEN <<>> ELSE <<>>

(***************************************************************************)
(* State.                                                                  *)
(***************************************************************************)
VARIABLES
    src,        \* the tree under the source root, on the source's host
    dst,        \* the tree under the destination root, on its host
    self,       \* the FileSyncer's fields set by __init__ from the options
    env,        \* the surroundings: clock, console, hosts, unreadable files
    stats,      \* self.stats
    pc,         \* where the run stands: "setup" (before
                \* setup_connections), "fatal" (sys.exit in _connect_sftp),
                \* then in synchronize(): "begin", "scan", "exec",
                \* "done" (returned at line 987), "aborted" (line 877 or 882)
    plan,       \* the locals of synchronize(): listings, conflicts, lists
    ip,         \* the next operation of the plan to execute
    result,     \* what synchronize() returned (read when pc = "done")
    run,        \* the number of the current run
    faults,     \* storage failures injected so far
    start,      \* the two trees when the current run began
    past,       \* what the earlier runs did
    proc        \* main() around the run: the syncer's SFTP clients, the
                \* SSH connections that are open, the summary, the exit

vars == <<src, dst, self, env, stats, pc, plan, ip, result, run, faults,
          start, past, proc>>

None == [none |-> TRUE]

ZeroStats ==
    [copied |-> 0, updated |-> 0, deleted |-> 0, skipped |-> 0,
     conflicts |-> 0, errors |-> 0, bytes_transferred |-> 0]

NoPlan ==
    [source_files |-> <<>>, dest_files |-> <<>>, conflicts |-> <<>>,
     to_copy |-> <<>>, to_update |-> <<>>, to_delete |-> <<>>,
     skipped |-> <<>>, conflict_skips |-> 0]

(***************************************************************************)
(* Connections.  In the remote branch of _path_exists, _list_files and     *)
(* _calculate_checksum the client is chosen by                             *)
(*   source_sftp if path_type == REMOTE and source_type == REMOTE          *)
(*   else dest_sftp                                                        *)
(* whichever side the caller means.                                        *)
(***************************************************************************)
SOURCE == "source"
DEST == "dest"

TypeOf(side) == IF side = SOURCE THEN self.source_type ELSE self.dest_type

SftpFor(path_type) ==
    IF path_type = PT_REMOTE /\ self.source_type = PT_REMOTE
    THEN "source_sftp" ELSE "dest_sftp"

\* What a client finds at the root path of a side.  The source's client
\* asked for the destination's path answers for the source's host: the
\* destination's tree when both are one host, else whatever that host has
\* at this path (nothing, or an empty directory).
TreeVia(client, side, s, d) ==
    IF side = SOURCE THEN s
    ELSE IF client = "dest_sftp" \/ env.shadow = "same" THEN d
    ELSE IF env.shadow = "empty" THEN EmptyTree
    ELSE NoTree

\* The tree a storage call on a side reaches.
Reached(side, s, d) ==
    IF TypeOf(side) = PT_LOCAL THEN (IF side = SOURCE THEN s ELSE d)
    ELSE TreeVia(SftpFor(TypeOf(side)), side, s, d)

Unreadable(side) ==
    IF side = SOURCE THEN env.src_unreadable ELSE env.dst_unreadable

path_exists(side, p, s, d) == Exists(Reached(side, s, d), p)

(***************************************************************************)
(* _calculate_checksum: the MD5 digest of the data (taken to be injective  *)
(* and never empty), or "" when the file cannot be opened and read.        *)
(***************************************************************************)
NoChecksum == <<>>
md5_hexdigest(data) == <<"#">> \o data

calculate_checksum(side, p, s, d) ==
    LET fs == Reached(side, s, d)
    IN IF IsFile(fs, p) /\ p \notin Unreadable(side)
       THEN md5_hexdigest(fs[p].data)
       ELSE NoChecksum

(***************************************************************************)
(* Dictionaries keyed by relative path, kept in insertion order.           *)
(***************************************************************************)
Keys(files) == {files[i].path : i \in 1..Len(files)}

Get(files, rel_path) ==
    IF rel_path \in Keys(files)
    THEN files[CHOOSE i \in 1..Len(files) : files[i].path = rel_path]
    ELSE None

Items(seq) == {seq[i] : i \in 1..Len(seq)}

RECURSIVE SelectSeqBy(_, _)
SelectSeqBy(seq, keep) ==
    IF seq = <<>> THEN <<>>
    ELSE (IF Head(seq) \in keep THEN <<Head(seq)>> ELSE <<>>)
         \o SelectSeqBy(Tail(seq), keep)

(***************************************************************************)
(* _compare_files                                                          *)
(***************************************************************************)
\* A variant that looks at the modification times whatever use_checksum
\* is; C11 tells it from the code's comparison.
compare_files_time_first(source_file, dest_file, s, d) ==
    IF dest_file = None THEN COPY
    ELSE IF source_file.size # dest_file.size THEN UPDATE
    ELSE IF /\ self.use_timestamp
            /\ source_file.mtime > dest_file.mtime + Tolerance
         THEN UPDATE
    ELSE IF self.use_checksum
         THEN LET source_checksum ==
                      calculate_checksum(SOURCE, source_file.path, s, d)
                  dest_checksum ==
                      calculate_checksum(DEST, dest_file.path, s, d)
              IN IF /\ source_checksum # NoChecksum
                    /\ dest_checksum # NoChecksum
                    /\ source_checksum # dest_checksum
                 THEN UPDATE ELSE SKIP
    ELSE SKIP

\* A variant in which a difference of exactly the tolerance is an update;
\* C18 tells it from the code's comparison.
compare_files_no_slack(source_file, dest_file, s, d) ==
    IF dest_file = None THEN COPY
    ELSE IF source_file.size # dest_file.size THEN UPDATE
    ELSE IF /\ self.use_timestamp /\ ~self.use_checksum
            /\ source_file.mtime >= dest_file.mtime + Tolerance
         THEN UPDATE
    ELSE IF self.use_checksum
         THEN LET source_checksum ==
                      calculate_checksum(SOURCE, source_file.path, s, d)
                  dest_checksum ==
                      calculate_checksum(DEST, dest_file.path, s, d)
              IN IF /\ source_checksum # NoChecksum
                    /\ dest_checksum # NoChecksum
                    /\ source_checksum # dest_checksum
                 THEN UPDATE ELSE SKIP
    ELSE SKIP

compare_files(source_file, dest_file, s, d) ==
    IF dest_file = None THEN COPY
    ELSE IF source_file.size # dest_file.size THEN UPDATE
    ELSE IF /\ self.use_timestamp /\ ~self.use_checksum
            /\ source_file.mtime > dest_file.mtime + Tolerance
         THEN UPDATE
    ELSE IF self.use_checksum
         THEN LET source_checksum ==
                      calculate_checksum(SOURCE, source_file.path, s, d)
                  dest_checksum ==
                      calculate_checksum(DEST, dest_file.path, s, d)
              IN IF /\ source_checksum # NoChecksum
                    /\ dest_checksum # NoChecksum
                    /\ source_checksum # dest_checksum
                 THEN UPDATE ELSE SKIP
    ELSE SKIP

(***************************************************************************)
(* _detect_conflicts                                                       *)
(***************************************************************************)
Abs(n) == IF n < 0 THEN -n ELSE n

\* A variant that looks at modification times even with use_checksum set;
\* C9 tells it from the code's test.
IsConflictByTime(source_file, dest_file, s, d) ==
    IF source_file.is_dir \/ dest_file.is_dir THEN FALSE
    ELSE Abs(source_file.mtime - dest_file.mtime) > Tolerance

IsConflict(source_file, dest_file, s, d) ==
    IF source_file.is_dir \/ dest_file.is_dir THEN FALSE
    ELSE IF self.use_checksum
         THEN calculate_checksum(SOURCE, source_file.path, s, d)
              # calculate_checksum(DEST, dest_file.path, s, d)
    ELSE Abs(source_file.mtime - dest_file.mtime) > Tolerance

\* A variant that looks for conflicts in every mode; C19 tells it from the
\* code's detector.
detect_conflicts_any_mode(source_files, dest_files, s, d) ==
    LET hit == {f \in Items(source_files) :
                   /\ f.path \in Keys(dest_files)
                   /\ IsConflict(f, Get(dest_files, f.path), s, d)}
        paths == [i \in 1..Len(source_files) |-> source_files[i].path]
    IN SelectSeqBy(paths, {f.path : f \in hit})

detect_conflicts(source_files, dest_files, s, d) ==
    IF self.sync_mode # TWO_WAY THEN <<>>
    ELSE LET hit == {f \in Items(source_files) :
                        /\ f.path \in Keys(dest_files)
                        /\ IsConflict(f, Get(dest_files, f.path), s, d)}
             paths == [i \in 1..Len(source_files) |-> source_files[i].path]
         IN SelectSeqBy(paths, {f.path : f \in hit})

(***************************************************************************)
(* _resolve_conflict                                                       *)
(***************************************************************************)
\* A variant in which a tie goes to the source; C10 tells it from the
\* code's resolver.
resolve_conflict_older_wins(rel_path, source_file, dest_file) ==
    IF self.force THEN UPDATE
    ELSE IF source_file.mtime >= dest_file.mtime THEN UPDATE
    ELSE SKIP

resolve_conflict(rel_path, source_file, dest_file) ==
    IF self.force THEN UPDATE
    ELSE IF source_file.mtime > dest_file.mtime THEN UPDATE
    ELSE SKIP

(***************************************************************************)
(* _list_files on one side.                                                *)
(***************************************************************************)
\* The entries whose os.stat raises during the local scan (a dangling
\* symbolic link, an entry of a directory without search permission); the
\* destination's entries can all be read.
Unstatable(side) == IF side = SOURCE THEN env.src_unstatable ELSE {}

\* The local loop of _list_files appends entry after entry; the first
\* os.stat that raises leaves the loop for the handler of line 429, and
\* what was appended until then is returned.
until_error(entries, failing) ==
    LET bad == {i \in 1..Len(entries) : entries[i].path \in failing}
    IN IF bad = {} THEN entries
       ELSE SubSeq(entries, 1, (CHOOSE i \in bad : \A j \in bad : i <= j) - 1)

list_files(side, s, d) ==
    IF TypeOf(side) = PT_LOCAL
    THEN until_error(os_walk(IF side = SOURCE THEN s ELSE d, <<>>),
                     Unstatable(side))
    ELSE list_remote_dir(TreeVia(SftpFor(TypeOf(side)), side, s, d), <<>>)

should_include_file(filepath) ==
    ShouldIncludeFile(filepath, self.exclude_patterns, self.include_patterns)

(***************************************************************************)
(* synchronize(), from the scan to the four lists.                         *)
(***************************************************************************)
\* The verdict of the planning loop on one source entry; a conflict that
\* is resolved to SKIP is marked, because it alone counts in
\* stats["conflicts"].
ConflictSkip == "conflict-skip"
NoAction == "none"

Verdict(source_file, dest_files, conflicts, s, d) ==
    LET dest_file == Get(dest_files, source_file.path)
    IN IF source_file.is_dir
       THEN (IF dest_file = None THEN COPY ELSE NoAction)
       ELSE IF source_file.path \in Items(conflicts)
            THEN LET action ==
                         resolve_conflict(source_file.path, source_file, dest_file)
                 IN IF action = SKIP THEN ConflictSkip ELSE action
       ELSE compare_files(source_file, dest_file, s, d)

Transfer(f) == [source_path |-> f.path, dest_path |-> f.path, is_dir |-> f.is_dir]

Removal(f) == [dest_path |-> f.path, is_dir |-> f.is_dir]

Transfers(files) == [i \in 1..Len(files) |-> Transfer(files[i])]
Removals(files) == [i \in 1..Len(files) |-> Removal(files[i])]
Paths(files) == [i \in 1..Len(files) |-> files[i].path]

\* Mirror mode: the destination entries to delete.
\* A variant that deletes whatever the source has; C17 tells it from the
\* code's list.
MirrorDeletionsAll(source_files, dest_files) ==
    IF self.sync_mode = MIRROR
    THEN Removals(
             SelectSeqBy(dest_files,
                 {f \in Items(dest_files) : should_include_file(f.path)}))
    ELSE <<>>

\* A variant that does not ask the filter; C20 tells it from the code's
\* list.
MirrorDeletionsUnfiltered(source_files, dest_files) ==
    IF self.sync_mode = MIRROR
    THEN Removals(
             SelectSeqBy(dest_files,
                 {f \in Items(dest_files) : f.path \notin Keys(source_files)}))
    ELSE <<>>

MirrorDeletions(source_files, dest_files) ==
    IF self.sync_mode = MIRROR
    THEN Removals(
             SelectSeqBy(dest_files,
                 {f \in Items(dest_files) :
                      /\ f.path \notin Keys(source_files)
                      /\ should_include_file(f.path)}))
    ELSE <<>>

BuildPlan(s, d) ==
    LET source_files_list == list_files(SOURCE, s, d)
        source_files ==
            SelectSeqBy(source_files_list,
                {f \in Items(source_files_list) : should_include_file(f.path)})
        dest_files ==
            IF path_exists(DEST, <<>>, s, d) THEN list_files(DEST, s, d)
            ELSE <<>>
        conflicts == detect_conflicts(source_files, dest_files, s, d)
        With(v) == SelectSeqBy(source_files,
                       {f \in Items(source_files) :
                            Verdict(f, dest_files, conflicts, s, d) \in v})
    IN [source_files |-> source_files,
        dest_files |-> dest_files,
        conflicts |-> conflicts,
        to_copy |-> Transfers(With({COPY})),
        to_update |-> Transfers(With({UPDATE})),
        to_delete |-> MirrorDeletions(source_files, dest_files),
        skipped |-> Paths(With({SKIP, ConflictSkip})),
        conflict_skips |-> Len(With({ConflictSkip}))]

(***************************************************************************)
(* The four execution loops of synchronize(), as one sequence of           *)
(* operations: the directories of to_copy, the files of to_copy, the files *)
(* of to_update, then to_delete.                                           *)
(***************************************************************************)
MKDIR == "mkdir"

Dirs(list) == SelectSeqBy(list, {t \in Items(list) : t.is_dir})
Files(list) == SelectSeqBy(list, {t \in Items(list) : ~t.is_dir})

Tag(kind, list) == [i \in 1..Len(list) |-> [op |-> kind, item |-> list[i]]]

\* A variant that deletes first; C16 tells it from the code's order.
OpsDeleteFirst(p) ==
    Tag(DELETE, p.to_delete) \o Tag(MKDIR, Dirs(p.to_copy))
    \o Tag(COPY, Files(p.to_copy)) \o Tag(UPDATE, Files(p.to_update))

Ops(p) ==
    Tag(MKDIR, Dirs(p.to_copy)) \o Tag(COPY, Files(p.to_copy))
    \o Tag(UPDATE, Files(p.to_update)) \o Tag(DELETE, p.to_delete)

(***************************************************************************)
(* The executor's three operations.  Each returns whether it succeeded,    *)
(* the destination tree it leaves, and what it adds to stats["errors"]     *)
(* and stats["bytes_transferred"].  fault names the storage call that the  *)
(* surroundings make fail in this step (permission denied, I/O failure),   *)
(* before it changes anything.                                             *)
(***************************************************************************)
NoFault == "none"
Faults == {NoFault, "mkdir", "backup", "copy", "delete"}

Outcome(ok, fs, errors, bytes) ==
    [ok |-> ok, fs |-> fs, errors |-> errors, bytes |-> bytes]

\* The root and the directories down to p, top first.
RECURSIVE PathChain(_)
PathChain(p) ==
    IF p = <<>> THEN <<<<>>>> ELSE PathChain(Dirname(p)) \o <<p>>

\* The remote loop of _create_directory: stat each prefix, mkdir it when
\* the stat fails.
RECURSIVE sftp_mkdirs(_, _)
sftp_mkdirs(fs, chain) ==
    IF chain = <<>> THEN Done(fs)
    ELSE IF Exists(fs, Head(chain)) THEN sftp_mkdirs(fs, Tail(chain))
    ELSE LET made == sftp_mkdir(fs, Head(chain))
         IN IF made.ok THEN sftp_mkdirs(made.fs, Tail(chain)) ELSE Failed(fs)

\* _create_directory(dirpath, self.dest_type).  The remote loop drops the
\* leading "/" of an absolute path, so with env.remote_abs the directories
\* are made under the session's working directory, outside dst.
create_directory(dirpath, d, fault) ==
    IF self.dry_run THEN Outcome(TRUE, d, 0, 0)
    ELSE IF fault = "mkdir" THEN Outcome(FALSE, d, 1, 0)
    ELSE LET made == IF self.dest_type = PT_LOCAL THEN os_makedirs(d, dirpath)
                     ELSE IF env.remote_abs THEN Done(d)
                     ELSE sftp_mkdirs(d, PathChain(dirpath))
         IN IF made.ok THEN Outcome(TRUE, made.fs, 0, 0)
            ELSE Outcome(FALSE, d, 1, 0)

\* dest + ".bak." + int(time.time())
BackupPath(path) == path \o <<".", "b", "a", "k", ".", ToString(env.now)>>

\* A variant that takes the backup after the overwrite, so that it holds
\* the new content; C23 tells it from the code's backup.
BackupAfterCopy(dest_path, s, d, fault) ==
    IF ~(self.backup /\ path_exists(DEST, dest_path, s, d)) THEN d
    ELSE IF fault = "backup" \/ ~IsFile(d, dest_path) \/ ~IsFile(s, dest_path)
         THEN d
    ELSE write_file(d, s[dest_path], BackupPath(dest_path), env.now).fs

\* The backup of an existing destination file before it is overwritten;
\* a failure is a warning and leaves the tree as it is.
BackupBeforeCopy(dest_path, s, d, fault) ==
    IF ~(self.backup /\ path_exists(DEST, dest_path, s, d)) THEN d
    ELSE IF fault = "backup" \/ ~IsFile(d, dest_path)
            \/ dest_path \in Unreadable(DEST)
         THEN d
    ELSE IF self.dest_type = PT_LOCAL
         THEN shutil_copy2(d, d[dest_path], Basename(dest_path),
                           BackupPath(dest_path)).fs
    ELSE IF env.stage_dir
         THEN write_file(d, d[dest_path], BackupPath(dest_path), env.now).fs
    ELSE d

\* The transfer itself: shutil.copy2 between local trees without the
\* progress bar, a write loop or an SFTP get/put in every other case.
TransferFile(source_path, dest_path, s, d, fault) ==
    IF fault = "copy" \/ ~IsFile(s, source_path)
       \/ source_path \in Unreadable(SOURCE)
    THEN Failed(d)
    ELSE IF /\ self.source_type = PT_LOCAL /\ self.dest_type = PT_LOCAL
            /\ ~env.rich
         THEN shutil_copy2(d, s[source_path], Basename(source_path), dest_path)
    ELSE write_file(d, s[source_path], dest_path, env.now)

\* A variant of _copy_file without the dry_run return of lines 545-547;
\* C3 tells it from the code's.
copy_file_no_dry_run(source_path, dest_path, s, d, fault) ==
    LET dest_dir == Dirname(dest_path)
        made == IF ~path_exists(DEST, dest_dir, s, d)
                THEN create_directory(dest_dir, d, fault)
                ELSE Outcome(TRUE, d, 0, 0)
        kept == BackupBeforeCopy(dest_path, s, made.fs, fault)
        sent == TransferFile(source_path, dest_path, s, kept, fault)
    IN IF ~made.ok THEN made
       ELSE IF sent.ok
            THEN Outcome(TRUE, sent.fs, 0, Len(s[source_path].data))
       ELSE Outcome(FALSE, kept, 1, 0)

\* _copy_file(source_path, dest_path, self.source_type, self.dest_type)
copy_file(source_path, dest_path, s, d, fault) ==
    IF self.dry_run THEN Outcome(TRUE, d, 0, 0)
    ELSE LET dest_dir == Dirname(dest_path)
             made == IF ~path_exists(DEST, dest_dir, s, d)
                     THEN create_directory(dest_dir, d, fault)
                     ELSE Outcome(TRUE, d, 0, 0)
             kept == BackupBeforeCopy(dest_path, s, made.fs, fault)
             sent == TransferFile(source_path, dest_path, s, kept, fault)
         IN IF ~made.ok THEN made
            ELSE IF sent.ok
                 THEN Outcome(TRUE, sent.fs, 0, Len(s[source_path].data))
            ELSE Outcome(FALSE, kept, 1, 0)

\* The backup of a file before it is deleted.
BackupBeforeDelete(path, is_dir, d, fault) ==
    IF ~self.backup \/ is_dir THEN d
    ELSE IF fault = "backup" \/ ~IsFile(d, path) \/ path \in Unreadable(DEST)
         THEN d
    ELSE IF self.dest_type = PT_LOCAL
         THEN shutil_copy2(d, d[path], Basename(path), BackupPath(path)).fs
    ELSE write_file(d, d[path], BackupPath(path), env.now).fs

\* rmdir_recursive logs an IOError and returns: the remote removal of a
\* directory never raises.
Remove(path, is_dir, d, fault) ==
    IF fault = "delete" THEN Failed(d)
    ELSE IF self.dest_type = PT_LOCAL
         THEN (IF is_dir THEN shutil_rmtree(d, path) ELSE os_unlink(d, path))
    ELSE IF is_dir
         THEN Done(IF IsDir(d, path) THEN shutil_rmtree(d, path).fs ELSE d)
    ELSE os_unlink(d, path)

\* _delete_path(path, self.dest_type, is_dir)
delete_path(path, is_dir, d, fault) ==
    IF self.dry_run THEN Outcome(TRUE, d, 0, 0)
    ELSE LET kept == BackupBeforeDelete(path, is_dir, d, fault)
             gone == Remove(path, is_dir, kept, fault)
         IN IF gone.ok THEN Outcome(TRUE, gone.fs, 0, 0)
            ELSE Outcome(FALSE, kept, 1, 0)

(***************************************************************************)
(* The steps of one run.                                                   *)
(***************************************************************************)
\* A step may take a fault only while the bound allows one, and only a
\* fault that changes what the step does.
MayInject(fault, outcome, plain) ==
    fault = NoFault \/ (faults < MaxFaults /\ outcome # plain)

Charge(fault) == faults' = faults + (IF fault = NoFault THEN 0 ELSE 1)

\* synchronize(), lines 874-882: the source root must exist; a missing
\* destination root is created unless the mode is mirror.
Begin ==
    /\ pc = "begin"
    /\ IF ~path_exists(SOURCE, <<>>, src, dst)
       THEN /\ result' = FALSE
            /\ pc' = "aborted"
            /\ UNCHANGED <<dst, stats, faults>>
       ELSE IF ~path_exists(DEST, <<>>, src, dst) /\ self.sync_mode # MIRROR
            THEN \E fault \in {NoFault, "mkdir"} :
                    LET made == create_directory(<<>>, dst, fault)
                    IN /\ MayInject(fault, made, create_directory(<<>>, dst, NoFault))
                       /\ Charge(fault)
                       /\ dst' = made.fs
                       /\ stats' = [stats EXCEPT !.errors = @ + made.errors]
                       /\ IF made.ok
                          THEN pc' = "scan" /\ UNCHANGED result
                          ELSE pc' = "aborted" /\ result' = FALSE
       ELSE /\ pc' = "scan"
            /\ UNCHANGED <<dst, stats, faults, result>>
    /\ UNCHANGED <<src, self, env, plan, ip, run, start, past, proc>>

\* A variant that in the two-way mode brings what only the destination
\* has back to the source; C28 tells it from the code's run.
ScanAndPlanBothWays ==
    /\ pc = "scan"
    /\ plan' = BuildPlan(src, dst)
    /\ stats' = [stats EXCEPT !.conflicts = @ + plan'.conflict_skips]
    /\ ip' = 1
    /\ pc' = "exec"
    /\ src' = IF self.sync_mode = TWO_WAY /\ ~self.dry_run THEN src @@ dst
              ELSE src
    /\ UNCHANGED <<dst, self, env, result, run, faults, start, past, proc>>

\* synchronize(), lines 884-957: scan, filter, detect conflicts, plan.
ScanAndPlan ==
    /\ pc = "scan"
    /\ plan' = BuildPlan(src, dst)
    /\ stats' = [stats EXCEPT !.conflicts = @ + plan'.conflict_skips]
    /\ ip' = 1
    /\ pc' = "exec"
    /\ UNCHANGED <<src, dst, self, env, result, run, faults, start, past, proc>>

Pending(kind) ==
    /\ pc = "exec"
    /\ ip <= Len(Ops(plan))
    /\ Ops(plan)[ip].op = kind

Item == Ops(plan)[ip].item

\* A variant that counts an operation whether or not it succeeded; C15
\* tells it from the code's counting.
CountAlways(ok) ==
    IF ok THEN 1 ELSE 1

Count(ok) ==
    IF ok THEN 1 ELSE 0

\* lines 960-963
ExecCreateDirectory ==
    /\ Pending(MKDIR)
    /\ \E fault \in {NoFault, "mkdir"} :
          LET out == create_directory(Item.dest_path, dst, fault)
          IN /\ MayInject(fault, out, create_directory(Item.dest_path, dst, NoFault))
             /\ Charge(fault)
             /\ dst' = out.fs
             /\ stats' = [stats EXCEPT !.copied = @ + Count(out.ok),
                                       !.errors = @ + out.errors]
    /\ ip' = ip + 1
    /\ UNCHANGED <<src, self, env, pc, plan, result, run, start, past, proc>>

\* lines 966-970
ExecCopy ==
    /\ Pending(COPY)
    /\ \E fault \in {NoFault, "mkdir", "backup", "copy"} :
          LET out == copy_file(Item.source_path, Item.dest_path, src, dst, fault)
          IN /\ MayInject(fault, out,
                    copy_file(Item.source_path, Item.dest_path, src, dst, NoFault))
             /\ Charge(fault)
             /\ dst' = out.fs
             /\ stats' = [stats EXCEPT !.copied = @ + Count(out.ok),
                                       !.errors = @ + out.errors,
                                       !.bytes_transferred = @ + out.bytes]
    /\ ip' = ip + 1
    /\ UNCHANGED <<src, self, env, pc, plan, result, run, start, past, proc>>

\* lines 973-977
ExecUpdate ==
    /\ Pending(UPDATE)
    /\ \E fault \in {NoFault, "mkdir", "backup", "copy"} :
          LET out == copy_file(Item.source_path, Item.dest_path, src, dst, fault)
          IN /\ MayInject(fault, out,
                    copy_file(Item.source_path, Item.dest_path, src, dst, NoFault))
             /\ Charge(fault)
             /\ dst' = out.fs
             /\ stats' = [stats EXCEPT !.updated = @ + Count(out.ok),
                                       !.errors = @ + out.errors,
                                       !.bytes_transferred = @ + out.bytes]
    /\ ip' = ip + 1
    /\ UNCHANGED <<src, self, env, pc, plan, result, run, start, past, proc>>

\* lines 980-982
ExecDelete ==
    /\ Pending(DELETE)
    /\ \E fault \in {NoFault, "backup", "delete"} :
          LET out == delete_path(Item.dest_path, Item.is_dir, dst, fault)
          IN /\ MayInject(fault, out,
                    delete_path(Item.dest_path, Item.is_dir, dst, NoFault))
             /\ Charge(fault)
             /\ dst' = out.fs
             /\ stats' = [stats EXCEPT !.deleted = @ + Count(out.ok),
                                       !.errors = @ + out.errors]
    /\ ip' = ip + 1
    /\ UNCHANGED <<src, self, env, pc, plan, result, run, start, past, proc>>

\* lines 984-987
Finish ==
    /\ pc = "exec"
    /\ ip > Len(Ops(plan))
    /\ stats' = [stats EXCEPT !.skipped = Len(plan.skipped)]
    /\ result' = (stats.errors = 0)
    /\ pc' = "done"
    /\ UNCHANGED <<src, dst, self, env, plan, ip, run, faults, start, past, proc>>

(***************************************************************************)
(* main() around one run: setup_connections before synchronize(), then     *)
(* print_summary, close_connections in the finally clause, and the exit.   *)
(***************************************************************************)
\* How main() was given the options: on the command line, by a
\* configuration file with one pair, or by one with "sync_pairs".
CLI == "cli"
CONFIG == "config"
SYNC_PAIRS == "sync_pairs"
Invocations == {CLI, CONFIG, SYNC_PAIRS}

\* source_sftp and dest_sftp: whether the syncer holds the client; open:
\* the sides whose SSH connection is up; exit_status is read when exited.
NewProc ==
    [source_sftp |-> FALSE, dest_sftp |-> FALSE, open |-> {},
     summary |-> FALSE, exited |-> FALSE, exit_status |-> 0]

\* _connect_sftp ends in one of three ways: it returns the client;
\* client.connect raises; client.open_sftp raises on the connected client.
\* In the last two it calls sys.exit(1).
ConnectOutcomes == {"ok", "connect", "open_sftp"}

connect_sftp(p, side, outcome) ==
    [ok |-> outcome = "ok",
     proc |-> IF outcome = "connect" THEN p
              ELSE [p EXCEPT !.open = @ \cup {side}]]

\* close_connections closes the connections of the clients it holds.
close_connections(p) ==
    [p EXCEPT !.open = @ \ ({side \in {SOURCE} : p.source_sftp}
                             \cup {side \in {DEST} : p.dest_sftp})]

\* setup_connections, and on SystemExit the finally clause of main().
SetupConnections ==
    /\ pc = "setup"
    /\ \E so \in ConnectOutcomes, do \in ConnectOutcomes :
          LET source == IF self.source_type = PT_REMOTE
                        THEN connect_sftp(proc, SOURCE, so)
                        ELSE [ok |-> TRUE, proc |-> proc]
              held == [source.proc EXCEPT
                          !.source_sftp = self.source_type = PT_REMOTE]
              dest == IF self.dest_type = PT_REMOTE
                      THEN connect_sftp(held, DEST, do)
                      ELSE [ok |-> TRUE, proc |-> held]
              injected == (IF so = "ok" THEN 0 ELSE 1)
                          + (IF do = "ok" THEN 0 ELSE 1)
          IN /\ self.source_type = PT_LOCAL => so = "ok"
             /\ (self.dest_type = PT_LOCAL \/ so # "ok") => do = "ok"
             /\ faults + injected <= MaxFaults
             /\ faults' = faults + injected
             /\ IF ~source.ok
                THEN /\ proc' = [close_connections(source.proc) EXCEPT
                                    !.exited = TRUE, !.exit_status = 1]
                     /\ pc' = "fatal"
                ELSE IF ~dest.ok
                THEN /\ proc' = [close_connections(dest.proc) EXCEPT
                                    !.exited = TRUE, !.exit_status = 1]
                     /\ pc' = "fatal"
                ELSE /\ proc' = [dest.proc EXCEPT
                                    !.dest_sftp = self.dest_type = PT_REMOTE]
                     /\ pc' = "begin"
    /\ UNCHANGED <<src, dst, self, env, stats, plan, ip, result, run, start,
                   past>>

\* main() after synchronize() returned: print_summary, close_connections,
\* and sys.exit(1) on the command-line path when the run failed and was
\* not a dry run; the two configuration-file paths only print.
ExitMain ==
    /\ pc \in {"done", "aborted"}
    /\ ~proc.exited
    /\ proc' = [close_connections(proc) EXCEPT
                   !.summary = TRUE,
                   !.exited = TRUE,
                   !.exit_status =
                       IF env.invocation = CLI /\ ~result /\ ~self.dry_run
                       THEN 1 ELSE 0]
    /\ UNCHANGED <<src, dst, self, env, stats, pc, plan, ip, result, run,
                   faults, start, past>>

\* What a finished run leaves for comparison with later runs.
Summary ==
    [dry_run |-> self.dry_run, stats |-> stats, result |-> result,
     pc |-> pc, plan |-> plan, start |-> start, faults |-> faults]

\* main(): the next FileSyncer, built from the same options (dry_run as
\* the command line gives it), run on the trees as they are now.  A dry
\* run is followed by a real one.
NewSyncer ==
    /\ pc \in {"done", "aborted", "fatal"}
    /\ proc.exited
    /\ run < MaxRuns
    /\ \E dry_run \in BOOLEAN :
          /\ self.dry_run => ~dry_run
          /\ self' = [self EXCEPT !.dry_run = dry_run]
    /\ run' = run + 1
    /\ past' = Append(past, Summary)
    /\ start' = [src |-> src, dst |-> dst]
    /\ stats' = ZeroStats
    /\ plan' = NoPlan
    /\ ip' = 1
    /\ result' = FALSE
    /\ pc' = "setup"
    /\ proc' = NewProc
    /\ UNCHANGED <<src, dst, env, faults>>

Next ==
    \/ SetupConnections
    \/ Begin
    \/ ScanAndPlan
    \/ ExecCreateDirectory
    \/ ExecCopy
    \/ ExecUpdate
    \/ ExecDelete
    \/ Finish
    \/ ExitMain
    \/ NewSyncer

(***************************************************************************)
(* Initial states: the trees, options and surroundings of the first run,   *)
(* drawn from several families of configurations.                          *)
(***************************************************************************)
PathA == <<"a">>
PathD == <<"d">>
PathAA == <<"a", "/", "a">>
PathDA == <<"d", "/", "a">>

Absent == None

DataX == <<"x">>
DataY == <<"y">>
DataXX == <<"x", "x">>

FileTimes == {0, Tolerance, MaxTime}

\* The tree with the given nodes at a, a/a, d and d/a.
Tree(a, aa, d, da) ==
    LET at == (PathA :> a) @@ (PathAA :> aa) @@ (PathD :> d) @@ (PathDA :> da)
    IN [p \in {<<>>} \cup {q \in DOMAIN at : at[q] # Absent} |->
            IF p = <<>> THEN DirNode ELSE at[p]]

\* Under a top-level name: nothing, a file, an empty directory, or a
\* directory with one file.
Shapes(file) ==
    {<<Absent, Absent>>, <<file, Absent>>, <<DirNode, Absent>>, <<DirNode, file>>}

ShapedTrees(file) ==
    {Tree(a[1], a[2], d[1], d[2]) : a \in Shapes(file), d \in Shapes(file)}

NewFile == FileNode(DataX, MaxTime)
OldFile == FileNode(DataXX, 0)

SingleFileTrees(datas) ==
    {Tree(FileNode(data, mtime), Absent, Absent, Absent) :
        data \in datas, mtime \in FileTimes}

FullTree == Tree(NewFile, Absent, DirNode, NewFile)

DefaultSelf ==
    [source_type |-> PT_LOCAL, dest_type |-> PT_LOCAL, dry_run |-> FALSE,
     sync_mode |-> ONE_WAY, exclude_patterns |-> <<>>,
     include_patterns |-> <<>>, use_timestamp |-> TRUE,
     use_checksum |-> FALSE, backup |-> FALSE, force |-> FALSE]

DefaultEnv ==
    [rich |-> FALSE, now |-> MaxTime + 1, remote_abs |-> FALSE,
     shadow |-> "same", stage_dir |-> FALSE,
     src_unreadable |-> {}, dst_unreadable |-> {}, src_unstatable |-> {},
     invocation |-> CLI]

Config(s, d, fields, around) ==
    [src |-> s, dst |-> d, self |-> fields, env |-> around]

\* Trees of every shape, local, in every mode; in mirror mode with and
\* without backups.
ShapeConfigs ==
    {Config(s, d,
            [DefaultSelf EXCEPT !.sync_mode = mode[1], !.backup = mode[2],
                                !.dry_run = dry_run],
            DefaultEnv) :
        s \in ShapedTrees(NewFile),
        d \in ShapedTrees(OldFile) \cup {NoTree},
        mode \in (SyncMode \X {FALSE}) \cup {<<MIRROR, TRUE>>},
        dry_run \in BOOLEAN}

\* One file on both sides, in every combination of the comparison options.
CompareConfigs ==
    {Config(s, d,
            [DefaultSelf EXCEPT !.sync_mode = mode, !.dry_run = dry_run,
                                !.use_timestamp = flags[1],
                                !.use_checksum = flags[2],
                                !.force = flags[3]],
            DefaultEnv) :
        s \in SingleFileTrees({DataX}),
        d \in SingleFileTrees({DataX, DataY, DataXX}),
        mode \in SyncMode, dry_run \in BOOLEAN,
        flags \in BOOLEAN \X BOOLEAN \X BOOLEAN}

\* One file of one size on both sides, compared by checksum, where the
\* file cannot be read on one side or on both.
UnreadableConfigs ==
    {Config(s, d,
            [DefaultSelf EXCEPT !.sync_mode = mode, !.use_checksum = TRUE,
                                !.use_timestamp = use_timestamp],
            [DefaultEnv EXCEPT !.src_unreadable = locked[1],
                               !.dst_unreadable = locked[2]]) :
        s \in SingleFileTrees({DataX}),
        d \in SingleFileTrees({DataX, DataY}),
        mode \in SyncMode, use_timestamp \in BOOLEAN,
        locked \in {<<{PathA}, {}>>, <<{}, {PathA}>>, <<{PathA}, {PathA}>>}}

Patterns == {<<"a">>, <<"d">>, <<"d", "/", "*">>, <<"?">>}

PatternLists ==
    {<<>>} \cup {<<p>> : p \in Patterns}
           \cup {pq \in Patterns \X Patterns : StrLess(pq[1], pq[2])}

\* Every pair of pattern lists, with a full tree on one side or on both.
FilterConfigs ==
    {Config(trees[1], trees[2],
            [DefaultSelf EXCEPT !.sync_mode = mode,
                                !.exclude_patterns = exclude,
                                !.include_patterns = include],
            DefaultEnv) :
        trees \in {<<FullTree, EmptyTree>>, <<FullTree, FullTree>>,
                   <<EmptyTree, FullTree>>},
        mode \in {ONE_WAY, MIRROR},
        exclude \in PatternLists, include \in PatternLists}

SmallTrees ==
    {EmptyTree, Tree(NewFile, Absent, Absent, Absent),
     Tree(Absent, Absent, DirNode, OldFile)}

\* A remote source, a remote destination, or both: the endpoint types,
\* what the source's session shows at the destination's path when both are
\* remote, and whether a remote destination's path is absolute.
RemoteEnds ==
    {<<PT_REMOTE, PT_LOCAL, "same", FALSE>>}
    \cup {<<PT_LOCAL, PT_REMOTE, "same", abs>> : abs \in BOOLEAN}
    \cup {<<PT_REMOTE, PT_REMOTE, shadow, abs>> :
              shadow \in {"same", "absent", "empty"}, abs \in BOOLEAN}

RemoteConfigs ==
    {Config(s, d,
            [DefaultSelf EXCEPT !.sync_mode = mode, !.dry_run = dry_run,
                                !.source_type = ends[1],
                                !.dest_type = ends[2],
                                !.backup = backup],
            [DefaultEnv EXCEPT !.shadow = ends[3], !.remote_abs = ends[4],
                               !.stage_dir = backup]) :
        s \in SmallTrees,
        d \in {EmptyTree, Tree(OldFile, Absent, Absent, Absent), NoTree},
        mode \in SyncMode, dry_run \in BOOLEAN, backup \in BOOLEAN,
        ends \in RemoteEnds}

\* The progress-bar transfer, with clocks before and after the files' times.
ConsoleConfigs ==
    {Config(s, d,
            [DefaultSelf EXCEPT !.sync_mode = mode],
            [DefaultEnv EXCEPT !.rich = TRUE, !.now = now]) :
        s \in SmallTrees \cup {NoTree},
        d \in ShapedTrees(OldFile),
        mode \in SyncMode, now \in {1, MaxTime + 1}}

\* A local source with one entry that os.stat cannot read: the first of
\* the scan, or the last.
ScanFailConfigs ==
    {Config(FullTree, d,
            [DefaultSelf EXCEPT !.sync_mode = mode],
            [DefaultEnv EXCEPT !.src_unstatable = {failing}]) :
        d \in {EmptyTree, FullTree},
        mode \in {ONE_WAY, MIRROR}, failing \in {PathA, PathDA}}

\* The options given by a configuration file, with one pair or several.
MainConfigs ==
    {Config(s, d,
            [DefaultSelf EXCEPT !.sync_mode = mode, !.dry_run = dry_run],
            [DefaultEnv EXCEPT !.invocation = invocation]) :
        s \in SmallTrees \cup {NoTree}, d \in SmallTrees,
        mode \in SyncMode, dry_run \in BOOLEAN,
        invocation \in {CONFIG, SYNC_PAIRS}}

Configs ==
    ShapeConfigs \cup CompareConfigs \cup FilterConfigs \cup RemoteConfigs
    \cup ConsoleConfigs \cup UnreadableConfigs \cup MainConfigs
    \cup ScanFailConfigs

Init ==
    /\ \E c \in Configs :
          /\ src = c.src
          /\ dst = c.dst
          /\ self = c.self
          /\ env = c.env
          /\ start = [src |-> c.src, dst |-> c.dst]
    /\ stats = ZeroStats
    /\ pc = "setup"
    /\ plan = NoPlan
    /\ ip = 1
    /\ result = FALSE
    /\ run = 1
    /\ faults = 0
    /\ past = <<>>
    /\ proc = NewProc

Spec == Init /\ [][Next]_vars

(***************************************************************************)
(* Notions the claims share.                                               *)
(***************************************************************************)
Planned == pc \in {"exec", "done"}

\* The plan has just been built; no later step of the run changes it.
JustPlanned == pc = "exec" /\ ip = 1

\* The relative paths of a tree that pass the filter.
FilteredPaths(fs) == {p \in DOMAIN fs \ {<<>>} : should_include_file(p)}

PathsOf(list) == {list[i].dest_path : i \in 1..Len(list)}

Counters(st) == <<st.copied, st.updated, st.deleted, st.skipped>>

BothLocal == self.source_type = PT_LOCAL /\ self.dest_type = PT_LOCAL

\* No relative path is a file in one tree and a directory in the other.
SameKinds(s, d) ==
    \A p \in DOMAIN s \cap DOMAIN d : s[p].is_dir = d[p].is_dir

\* A pattern of the list matches the path or its base name.
MatchedBy(p, patterns) ==
    \E i \in 1..Len(patterns) :
        fnmatch(p, patterns[i]) \/ fnmatch(Basename(p), patterns[i])

\* The paths the filter is asked about: every path of the two trees and
\* the names of backups.
ProbePaths ==
    (DOMAIN src \cup DOMAIN dst \cup {PathA, PathD, PathAA, PathDA,
                                      BackupPath(PathA), BackupPath(PathDA)})
    \ {<<>>}

\* No exclude pattern matches, and the include list is empty or matches.
Passes(p) ==
    /\ ~MatchedBy(p, self.exclude_patterns)
    /\ self.include_patterns = <<>> \/ MatchedBy(p, self.include_patterns)

\* The destination entries whose relative path the source does not have.
DestOnly == DOMAIN start.dst \ (DOMAIN start.src \cup {<<>>})

\* A path that both listings have as a file.
OnBothSides(p) ==
    /\ p \in Keys(plan.source_files) /\ p \in Keys(plan.dest_files)
    /\ ~Get(plan.source_files, p).is_dir /\ ~Get(plan.dest_files, p).is_dir

\* The source wins a conflict: force, or a strictly newer source.
SourceWins(p) ==
    \/ self.force
    \/ Get(plan.source_files, p).mtime > Get(plan.dest_files, p).mtime

\* The operations of the plan already executed, and those still to run.
Executed == SubSeq(Ops(plan), 1, ip - 1)
Remaining == SubSeq(Ops(plan), ip, Len(Ops(plan)))

\* The storage failures injected in the current run.
FaultsOfRun == faults - (IF past = <<>> THEN 0 ELSE past[Len(past)].faults)

\* How many of the operations are of one of the kinds.
HowMany(ops, kinds) == Cardinality({i \in 1..Len(ops) : ops[i].op \in kinds})

\* Directory creations come first, then copies and updates, then deletions.
Phase(kind) ==
    IF kind = MKDIR THEN 1 ELSE IF kind \in {COPY, UPDATE} THEN 2 ELSE 3

(***************************************************************************)
(* C1: after a mirror run with dry_run off that returns with errors = 0,   *)
(* the filtered relative paths of the destination are those of the source. *)
(* Stated for a local source and a local destination.                      *)
(***************************************************************************)
C1_MirrorCompleteness ==
    (pc = "done" /\ self.sync_mode = MIRROR /\ ~self.dry_run
     /\ stats.errors = 0 /\ BothLocal)
        => FilteredPaths(dst) = FilteredPaths(src)

(***************************************************************************)
(* C2: a second one-way run (dry_run off in both) on an unchanged source   *)
(* plans no copy, no update and no delete.  Stated for a local source and  *)
(* a local destination and a first run that returned with errors = 0.      *)
(***************************************************************************)
C2_Idempotence ==
    (Planned /\ run = 2 /\ self.sync_mode = ONE_WAY /\ ~self.dry_run
     /\ BothLocal /\ ~past[1].dry_run /\ past[1].pc = "done" /\ past[1].stats.errors = 0
     /\ past[1].start.src = src)
        => /\ plan.to_copy = <<>>
           /\ plan.to_update = <<>>
           /\ plan.to_delete = <<>>

(***************************************************************************)
(* C3: with dry_run set, synchronize() leaves the source tree and the      *)
(* destination tree as they were when the run began, at every step and in  *)
(* every mode: no directory (the destination root included), no file and   *)
(* no backup is written, nothing is deleted.                               *)
(***************************************************************************)
C3_DryRunChangesNothing ==
    self.dry_run => (src = start.src /\ dst = start.dst)

\* A finished mirror dry run with backups on whose plan makes a directory,
\* copies, updates and deletes.
C3_Witness ==
    /\ pc = "done" /\ self.dry_run /\ self.backup
    /\ self.sync_mode = MIRROR
    /\ Dirs(plan.to_copy) # <<>> /\ Files(plan.to_copy) # <<>>
    /\ plan.to_update # <<>> /\ plan.to_delete # <<>>
    /\ stats.copied > 1 /\ stats.updated > 0 /\ stats.deleted > 0
    /\ dst = start.dst

(***************************************************************************)
(* C4: a dry run and a real run started from the same trees with the same  *)
(* options end with the same copied, updated, deleted and skipped          *)
(* counters.  Stated for a local source and a local destination, trees in  *)
(* which no path is a file on one side and a directory on the other, and   *)
(* real runs in which the surroundings made no storage call fail.          *)
(***************************************************************************)
C4_DryRunSameCounters ==
    (pc = "done" /\ run = 2 /\ ~self.dry_run /\ faults = 0
     /\ BothLocal /\ SameKinds(start.src, start.dst)
     /\ past[1].dry_run /\ past[1].pc = "done"
     /\ past[1].start = start)
        => Counters(stats) = Counters(past[1].stats)

(***************************************************************************)
(* C5: the filter accepts a relative path exactly when no exclude pattern  *)
(* matches it (as a whole or by its base name) and the include list is     *)
(* empty or one of its patterns matches it (as a whole or by its base      *)
(* name); so a path that an exclude pattern matches is rejected whatever   *)
(* the include patterns are.                                               *)
(***************************************************************************)
C5_FilterCorrect ==
    /\ \A p \in ProbePaths : should_include_file(p) <=> Passes(p)
    /\ Planned
         => LET listed == Keys(list_files(SOURCE, start.src, start.dst))
            IN Keys(plan.source_files) = {p \in listed : Passes(p)}

\* A planned run that dropped a scanned source path which an include
\* pattern matches by its whole path and an exclude pattern by its base
\* name only.
C5_Witness ==
    /\ Planned
    /\ \E p \in DOMAIN src :
          /\ \E i \in 1..Len(self.include_patterns) :
                 fnmatch(p, self.include_patterns[i])
          /\ \E i \in 1..Len(self.exclude_patterns) :
                 /\ fnmatch(Basename(p), self.exclude_patterns[i])
                 /\ ~fnmatch(p, self.exclude_patterns[i])
          /\ p \notin Keys(plan.source_files)
          /\ plan.source_files # <<>>

(***************************************************************************)
(* C6: in one-way mode with an empty destination the plan is one copy for  *)
(* every source entry that passes the filter and nothing else; after a     *)
(* run with dry_run off in which no storage operation fails, every         *)
(* filtered source file is in the destination at the same relative path    *)
(* with the source's content, and stats.copied is the number of copies.    *)
(***************************************************************************)
C6_OneWayIntoEmpty ==
    (Planned /\ self.sync_mode = ONE_WAY /\ DOMAIN start.dst \subseteq {<<>>})
        => /\ PathsOf(plan.to_copy) = FilteredPaths(start.src)
           /\ Len(plan.to_copy) = Cardinality(FilteredPaths(start.src))
           /\ plan.to_update = <<>>
           /\ plan.to_delete = <<>>
           /\ plan.skipped = <<>>
           /\ (pc = "done" /\ ~self.dry_run /\ faults = 0 /\ stats.errors = 0)
                => /\ \A p \in FilteredPaths(start.src) :
                          IsFile(start.src, p)
                            => IsFile(dst, p) /\ dst[p].data = start.src[p].data
                   /\ stats.copied = Len(plan.to_copy)

(***************************************************************************)
(* C7: in mirror mode every destination entry whose relative path is not   *)
(* in the source and which passes the filter is in the delete list; after  *)
(* a run with dry_run off that ends with errors = 0 none of them exists    *)
(* any more and stats.deleted is the length of the delete list.            *)
(***************************************************************************)
C7_MirrorDeletes ==
    (Planned /\ self.sync_mode = MIRROR)
        => /\ \A p \in DestOnly :
                  should_include_file(p) => p \in PathsOf(plan.to_delete)
           /\ (pc = "done" /\ ~self.dry_run /\ stats.errors = 0)
                => /\ \A p \in DestOnly :
                          should_include_file(p) => ~Exists(dst, p)
                   /\ stats.deleted = Len(plan.to_delete)

(***************************************************************************)
(* C8: in one-way and two-way mode the delete list is empty, stats.deleted *)
(* stays 0, and every destination entry whose relative path is not in the  *)
(* source exists with its content unchanged throughout the run.            *)
(***************************************************************************)
C8_NoDeletionOutsideMirror ==
    self.sync_mode \in {ONE_WAY, TWO_WAY}
        => /\ plan.to_delete = <<>>
           /\ stats.deleted = 0
           /\ \A p \in DestOnly : Exists(dst, p) /\ dst[p] = start.dst[p]

(***************************************************************************)
(* C9: in two-way mode with use_checksum set, a file that is on both sides *)
(* and whose two checksums are equal is not in the conflict set, however   *)
(* far apart the two modification times are.                               *)
(***************************************************************************)
C9_EqualChecksumsNoConflict ==
    (Planned /\ self.sync_mode = TWO_WAY /\ self.use_checksum)
        => \A p \in DOMAIN start.src :
              (/\ OnBothSides(p)
               /\ calculate_checksum(SOURCE, p, start.src, start.dst)
                    = calculate_checksum(DEST, p, start.src, start.dst))
                  => p \notin Items(plan.conflicts)

\* A planned two-way run with checksums: a file with the same data on both
\* sides and modification times more than the tolerance apart, which is
\* not in the conflict set.
C9_Witness ==
    /\ Planned /\ self.sync_mode = TWO_WAY /\ self.use_checksum
    /\ \E p \in DOMAIN start.src \cap DOMAIN start.dst :
          /\ OnBothSides(p)
          /\ start.src[p].data = start.dst[p].data
          /\ start.src[p].mtime - start.dst[p].mtime > Tolerance
          /\ p \notin Items(plan.conflicts)

(***************************************************************************)
(* C10: every path of the conflict set gets exactly one verdict: update    *)
(* when force is set, else update exactly when the source's modification   *)
(* time is strictly newer, else skip.  A path resolved to skip is not      *)
(* transferred: its destination entry stays as it was, it is not in the    *)
(* update list that stats.updated counts, and it adds one to               *)
(* stats.conflicts.                                                        *)
(***************************************************************************)
C10_ConflictVerdict ==
    Planned
        => /\ \A p \in Items(plan.conflicts) :
                  /\ p \notin PathsOf(plan.to_copy)
                  /\ SourceWins(p)
                       => p \in PathsOf(plan.to_update) /\ p \notin Items(plan.skipped)
                  /\ ~SourceWins(p)
                       => /\ p \in Items(plan.skipped)
                          /\ p \notin PathsOf(plan.to_update)
                          /\ Exists(dst, p) /\ dst[p] = start.dst[p]
           /\ stats.conflicts
                = Cardinality({p \in Items(plan.conflicts) : ~SourceWins(p)})
           /\ stats.updated <= Len(plan.to_update)

\* A finished real two-way run without force: one conflict with the
\* destination newer or as old, resolved to skip and counted, nothing
\* updated.
C10_Witness ==
    /\ pc = "done" /\ ~self.dry_run /\ ~self.force
    /\ self.sync_mode = TWO_WAY
    /\ \E p \in Items(plan.conflicts) :
          /\ Get(plan.source_files, p).mtime <= Get(plan.dest_files, p).mtime
          /\ p \in Items(plan.skipped)
          /\ dst[p] = start.dst[p]
          /\ start.src[p].data # start.dst[p].data
    /\ stats.conflicts = 1
    /\ stats.updated = 0

(***************************************************************************)
(* C11: with use_checksum set, for a source file and a destination file of *)
(* equal size the comparison gives UPDATE when both checksums can be       *)
(* obtained and differ, and SKIP when they are equal or one of them cannot *)
(* be obtained; the modification times play no role.  Outside two-way mode *)
(* the path is planned accordingly.                                        *)
(***************************************************************************)
C11_ChecksumComparison ==
    (Planned /\ self.use_checksum)
        => \A p \in DOMAIN start.src \cap DOMAIN start.dst :
              (OnBothSides(p)
               /\ Get(plan.source_files, p).size = Get(plan.dest_files, p).size)
                  => LET verdict ==
                             compare_files(Get(plan.source_files, p),
                                           Get(plan.dest_files, p),
                                           start.src, start.dst)
                         differ ==
                             /\ p \notin env.src_unreadable
                             /\ p \notin env.dst_unreadable
                             /\ start.src[p].data # start.dst[p].data
                     IN /\ verdict = (IF differ THEN UPDATE ELSE SKIP)
                        /\ self.sync_mode # TWO_WAY
                             => /\ p \in PathsOf(plan.to_update) <=> differ
                                /\ p \in Items(plan.skipped) <=> ~differ

\* A planned one-way run by checksum and timestamp: equal sizes, different
\* data, the source newer by more than the tolerance, the destination file
\* unreadable; the file is skipped.
C11_Witness ==
    /\ Planned /\ self.use_checksum /\ self.use_timestamp
    /\ self.sync_mode = ONE_WAY
    /\ OnBothSides(PathA)
    /\ Len(start.src[PathA].data) = Len(start.dst[PathA].data)
    /\ start.src[PathA].data # start.dst[PathA].data
    /\ start.src[PathA].mtime > start.dst[PathA].mtime + Tolerance
    /\ PathA \in env.dst_unreadable /\ PathA \notin env.src_unreadable
    /\ PathA \in Items(plan.skipped)
    /\ plan.to_update = <<>>

(***************************************************************************)
(* C12: on every return of synchronize() the value returned is true        *)
(* exactly when stats.errors is 0, the returns for a missing source root   *)
(* and for a destination root that cannot be created included.            *)
(***************************************************************************)
C12_ResultIffNoErrors ==
    pc \in {"done", "aborted"} => (result <=> stats.errors = 0)

(***************************************************************************)
(* C13: a run always prints its summary, and the process exits with a      *)
(* failure status exactly when stats.errors > 0 at the end of the run,     *)
(* whether the options came from the command line, from a configuration    *)
(* file with one pair or from one with sync_pairs.                         *)
(***************************************************************************)
C13_ExitStatus ==
    proc.exited
        => /\ proc.summary
           /\ proc.exit_status # 0 <=> stats.errors > 0

(***************************************************************************)
(* C14: every remote connection opened for a run is closed when the run    *)
(* ends, however it ends.                                                  *)
(***************************************************************************)
C14_ConnectionsClosed ==
    proc.exited => proc.open = {}

(***************************************************************************)
(* C15: every executed operation of the plan (directory creation, copy,    *)
(* update, deletion) adds one to exactly one counter, its own (copied,     *)
(* copied, updated, deleted) or errors; and after a failure the rest of    *)
(* the plan is still carried out, so a run that reaches line 987 has       *)
(* executed every operation.                                               *)
(***************************************************************************)
C15_OneCounterPerAction ==
    Planned
        => LET executed == Executed
           IN /\ stats.copied + stats.updated + stats.deleted + stats.errors
                   = Len(executed)
              /\ stats.copied <= HowMany(executed, {MKDIR, COPY})
              /\ stats.updated <= HowMany(executed, {UPDATE})
              /\ stats.deleted <= HowMany(executed, {DELETE})
              /\ pc = "done" => Len(executed) = Len(Ops(plan))

\* A finished real run in which a copy or an update failed and a later
\* deletion was still carried out and counted.
C15_Witness ==
    /\ pc = "done" /\ ~self.dry_run
    /\ HowMany(Executed, {COPY, UPDATE}) = 1
    /\ HowMany(Executed, {MKDIR}) = 0
    /\ stats.errors = 1 /\ stats.copied = 0 /\ stats.updated = 0
    /\ stats.deleted >= 1

(***************************************************************************)
(* C16: in the execution of a plan every directory creation comes before   *)
(* every file copy and update, and every copy and update before every      *)
(* deletion: what has been executed is never of a later phase than what    *)
(* remains, and no copy or update under a directory still to be created    *)
(* has run.                                                                *)
(***************************************************************************)
C16_ExecutionOrder ==
    pc = "exec"
        => LET ops == Ops(plan)
           IN \A i \in 1..(ip - 1), j \in ip..Len(ops) :
                 /\ Phase(ops[i].op) <= Phase(ops[j].op)
                 /\ (ops[j].op = MKDIR /\ ops[i].op \in {COPY, UPDATE})
                       => ~Below(ops[j].item.dest_path, ops[i].item.dest_path)

\* A real run about to delete, after a directory creation, a copy under
\* the new directory and an update.
C16_Witness ==
    /\ pc = "exec" /\ ~self.dry_run
    /\ Remaining # <<>> /\ Remaining[1].op = DELETE
    /\ HowMany(Executed, {UPDATE}) > 0
    /\ \E i \in 1..Len(Executed), j \in 1..Len(Executed) :
          /\ Executed[i].op = MKDIR /\ Executed[j].op = COPY /\ i < j
          /\ Below(Executed[i].item.dest_path, Executed[j].item.dest_path)

(***************************************************************************)
(* C17: in every plan a relative path is in at most one of the lists       *)
(* to_copy, to_update, to_delete and skipped, and at most once there.      *)
(***************************************************************************)
C17_PlanListsDisjoint ==
    JustPlanned
        => LET listed ==
                   [i \in 1..Len(plan.to_copy) |-> plan.to_copy[i].dest_path]
                   \o [i \in 1..Len(plan.to_update) |->
                          plan.to_update[i].dest_path]
                   \o [i \in 1..Len(plan.to_delete) |->
                          plan.to_delete[i].dest_path]
                   \o plan.skipped
           IN \A i \in 1..Len(listed), j \in 1..Len(listed) :
                  i # j => listed[i] # listed[j]

\* A mirror plan with copies, an update and a deletion.
C17_Witness ==
    /\ Planned /\ self.sync_mode = MIRROR
    /\ Len(plan.to_copy) > 1
    /\ plan.to_update # <<>>
    /\ plan.to_delete # <<>>

(***************************************************************************)
(* C18: without use_checksum, _compare_files answers COPY for a source     *)
(* file with no destination entry, else UPDATE when the sizes differ,      *)
(* else, with use_timestamp, UPDATE exactly when the source mtime exceeds  *)
(* the destination mtime by more than the tolerance (a difference of       *)
(* exactly the tolerance gives SKIP), and SKIP in every other case; where  *)
(* no conflict can hide the verdict the plan lists the file accordingly.   *)
(***************************************************************************)
C18_TimestampComparison ==
    (JustPlanned /\ ~self.use_checksum)
        => \A p \in Keys(plan.source_files) :
              ~Get(plan.source_files, p).is_dir
                  => LET source_file == Get(plan.source_files, p)
                         dest_file == Get(plan.dest_files, p)
                         verdict == compare_files(source_file, dest_file,
                                                  start.src, start.dst)
                         newer ==
                             /\ self.use_timestamp
                             /\ source_file.mtime - dest_file.mtime > Tolerance
                         expected ==
                             IF p \notin Keys(plan.dest_files) THEN COPY
                             ELSE IF source_file.size # dest_file.size
                                  THEN UPDATE
                             ELSE IF newer THEN UPDATE
                             ELSE SKIP
                     IN /\ verdict = expected
                        /\ self.sync_mode # TWO_WAY
                             => /\ p \in PathsOf(plan.to_copy)
                                      <=> expected = COPY
                                /\ p \in PathsOf(plan.to_update)
                                      <=> expected = UPDATE
                                /\ p \in Items(plan.skipped)
                                      <=> expected = SKIP

\* A planned one-way run by timestamp alone: equal sizes, the source newer
\* by exactly the tolerance; the file is skipped.
C18_Witness ==
    /\ Planned /\ ~self.use_checksum /\ self.use_timestamp
    /\ self.sync_mode = ONE_WAY
    /\ OnBothSides(PathA)
    /\ Get(plan.source_files, PathA).size = Get(plan.dest_files, PathA).size
    /\ Get(plan.source_files, PathA).mtime
           = Get(plan.dest_files, PathA).mtime + Tolerance
    /\ PathA \in Items(plan.skipped)
    /\ plan.to_update = <<>>

(***************************************************************************)
(* C19: the conflict set is empty in the one-way and mirror modes; in the  *)
(* two-way mode a relative path is in it exactly when it is in the         *)
(* filtered source index and in the destination index, a file on both      *)
(* sides, and either use_checksum is set and the two checksums differ, or  *)
(* it is not set and the mtimes are more than the tolerance apart; the     *)
(* sizes play no part.                                                     *)
(***************************************************************************)
C19_ConflictSet ==
    JustPlanned
        => IF self.sync_mode # TWO_WAY THEN plan.conflicts = <<>>
           ELSE \A p \in Keys(plan.source_files) \cup Keys(plan.dest_files)
                          \cup Items(plan.conflicts) :
                    p \in Items(plan.conflicts)
                        <=> /\ OnBothSides(p)
                            /\ IF self.use_checksum
                               THEN calculate_checksum(SOURCE, p,
                                        start.src, start.dst)
                                    # calculate_checksum(DEST, p,
                                          start.src, start.dst)
                               ELSE Abs(Get(plan.source_files, p).mtime
                                        - Get(plan.dest_files, p).mtime)
                                    > Tolerance

\* A two-way plan without checksums: a file of different sizes on the two
\* sides, the destination newer by more than the tolerance, is a conflict.
C19_Witness ==
    /\ Planned /\ self.sync_mode = TWO_WAY /\ ~self.use_checksum
    /\ OnBothSides(PathA)
    /\ Get(plan.source_files, PathA).size # Get(plan.dest_files, PathA).size
    /\ Get(plan.dest_files, PathA).mtime
           > Get(plan.source_files, PathA).mtime + Tolerance
    /\ PathA \in Items(plan.conflicts)

(***************************************************************************)
(* C20: in the mirror mode the delete list holds the destination entries   *)
(* (files and directories, each with its kind) whose relative path is not  *)
(* in the filtered source index and passes the exclude/include filter, and *)
(* nothing else.                                                           *)
(***************************************************************************)
C20_DeleteList ==
    (JustPlanned /\ self.sync_mode = MIRROR)
        => /\ PathsOf(plan.to_delete)
                = {p \in Keys(plan.dest_files) \ Keys(plan.source_files) :
                       Passes(p)}
           /\ \A i \in 1..Len(plan.to_delete) :
                  plan.to_delete[i].is_dir
                      = Get(plan.dest_files, plan.to_delete[i].dest_path).is_dir

\* C20 as the specification states it: every destination entry absent from
\* the filtered source index is in the delete list, whether or not it
\* passes the filter.
C20_DeleteListUnfiltered ==
    (Planned /\ self.sync_mode = MIRROR)
        => PathsOf(plan.to_delete)
               = Keys(plan.dest_files) \ Keys(plan.source_files)

\* A mirror plan over a destination with a file and a directory that the
\* source does not have: the one passes the filter and is in the delete
\* list, the other does not pass and is not.
C20_Witness ==
    /\ Planned /\ self.sync_mode = MIRROR
    /\ \E p, q \in Keys(plan.dest_files) \ Keys(plan.source_files) :
          /\ Get(plan.dest_files, p).is_dir # Get(plan.dest_files, q).is_dir
          /\ Passes(p) /\ p \in PathsOf(plan.to_delete)
          /\ ~Passes(q) /\ q \notin PathsOf(plan.to_delete)

(***************************************************************************)
(* C21: a local scan of the source in which the reading of an entry fails  *)
(* leaves out that entry alone: every other entry of the tree that passes  *)
(* the filter is in the source index, and every failure is counted in      *)
(* stats.errors.                                                           *)
(***************************************************************************)
C21_ScanOmitsOnlyFailures ==
    (Planned /\ self.source_type = PT_LOCAL)
        => /\ \A p \in DOMAIN start.src \ {<<>>} :
                  (p \notin env.src_unstatable /\ Passes(p))
                      => p \in Keys(plan.source_files)
           /\ stats.errors >= Cardinality(env.src_unstatable)

(***************************************************************************)
(* C22: when use_checksum is set and the checksum of a file present on     *)
(* both sides is asked for (in the two-way mode, or with equal sizes) but  *)
(* the file cannot be read on one side, the run goes on, stats.errors      *)
(* counts the failure, and the file is neither copied nor updated.         *)
(***************************************************************************)
C22_ChecksumUnavailable ==
    (Planned /\ self.use_checksum)
        => \A p \in Keys(plan.source_files) :
              (/\ OnBothSides(p)
               /\ \/ self.sync_mode = TWO_WAY
                  \/ Get(plan.source_files, p).size
                         = Get(plan.dest_files, p).size
               /\ p \in env.src_unreadable \cup env.dst_unreadable)
                  => /\ stats.errors >= 1
                     /\ p \notin PathsOf(plan.to_copy)
                     /\ p \notin PathsOf(plan.to_update)

(***************************************************************************)
(* C23: with backup set and dry_run off, a copy or an update onto an       *)
(* existing destination file leaves, unless the backup attempt failed, a   *)
(* file dest.bak.<time> holding the old content of the destination, taken  *)
(* before the overwrite; a failed backup adds nothing to stats.errors, and *)
(* the transfer is attempted in either case: it succeeds, or it is the one *)
(* error counted.                                                          *)
(***************************************************************************)
C23_BackupBeforeOverwrite ==
    [][(/\ Pending(COPY) \/ Pending(UPDATE)
        /\ self.backup /\ ~self.dry_run
        /\ IsFile(dst, Item.dest_path)
        /\ ip' = ip + 1)
          => LET dest_path == Item.dest_path
                 backup_path == BackupPath(dest_path)
                 backed_up ==
                     /\ IsFile(dst', backup_path)
                     /\ dst'[backup_path].data = dst[dest_path].data
                 no_backup ==
                     /\ Exists(dst', backup_path) = Exists(dst, backup_path)
                     /\ Exists(dst, backup_path)
                            => dst'[backup_path] = dst[backup_path]
                 sent ==
                     /\ IsFile(dst', dest_path)
                     /\ dst'[dest_path].data = src[Item.source_path].data
                     /\ stats'.errors = stats.errors
                 not_sent ==
                     /\ dst'[dest_path] = dst[dest_path]
                     /\ stats'.errors = stats.errors + 1
                 attempt_fails ==
                     \/ faults' # faults
                     \/ dest_path \in env.dst_unreadable
                     \/ self.dest_type = PT_REMOTE /\ ~env.stage_dir
             IN \/ backed_up /\ sent
                \/ backed_up /\ not_sent /\ faults' # faults
                \/ attempt_fails /\ no_backup /\ (sent \/ not_sent)
      ]_vars

\* A real run with backups has just updated a file: the backup holds the
\* old content, the destination the new one, and no error was counted.
C23_Witness ==
    /\ pc = "exec" /\ self.backup /\ ~self.dry_run /\ ip > 1
    /\ Executed[ip - 1].op = UPDATE
    /\ LET dest_path == Executed[ip - 1].item.dest_path
       IN /\ IsFile(start.dst, dest_path)
          /\ IsFile(dst, BackupPath(dest_path))
          /\ dst[BackupPath(dest_path)].data = start.dst[dest_path].data
          /\ dst[dest_path].data = src[dest_path].data
          /\ dst[dest_path].data # start.dst[dest_path].data
          /\ stats.errors = 0

(***************************************************************************)
(* C24: the scan of a remote root returns the index a local scan of the    *)
(* same tree returns: one entry for every file and directory below the     *)
(* root.  With no patterns, the source index of a remote source, and the   *)
(* destination index of a remote destination reached from a local source,  *)
(* hold the entries of the tree.                                           *)
(***************************************************************************)
C24_RemoteScanEqualsLocal ==
    (Planned /\ self.exclude_patterns = <<>> /\ self.include_patterns = <<>>)
        => /\ self.source_type = PT_REMOTE
                => Items(plan.source_files) = Items(os_walk(start.src, <<>>))
           /\ (/\ self.source_type = PT_LOCAL /\ self.dest_type = PT_REMOTE
               /\ Exists(start.dst, <<>>))
                => Items(plan.dest_files) = Items(os_walk(start.dst, <<>>))

(***************************************************************************)
(* C25: in the mirror mode no run deletes a destination entry whose        *)
(* relative path exists in the source tree and passes the filter: such an  *)
(* entry is never in the delete list and is still in the destination       *)
(* afterwards, whatever the scan of the source returned.                   *)
(***************************************************************************)
C25_MirrorKeepsWhatSourceHas ==
    (Planned /\ self.sync_mode = MIRROR)
        => \A p \in (DOMAIN start.src \cap DOMAIN start.dst) \ {<<>>} :
              Passes(p)
                  => /\ p \notin PathsOf(plan.to_delete)
                     /\ Exists(dst, p)

(***************************************************************************)
(* C26: in the mirror mode a destination entry that does not pass the      *)
(* filter is never removed by the run, also when it lies in a directory    *)
(* that only the destination has and that the run deletes.                 *)
(***************************************************************************)
C26_FilteredEntriesKept ==
    (Planned /\ self.sync_mode = MIRROR)
        => \A p \in DOMAIN start.dst \ {<<>>} : ~Passes(p) => Exists(dst, p)

(***************************************************************************)
(* C27: in a mirror run no deletion is attempted on a path that an earlier *)
(* deletion of the run removed, and a run that only deletes and meets no   *)
(* storage failure ends with errors = 0 and returns success.               *)
(***************************************************************************)
C27_NoDoubleDelete ==
    self.sync_mode = MIRROR
        => /\ Pending(DELETE) => Exists(dst, Item.dest_path)
           /\ (/\ pc = "done" /\ FaultsOfRun = 0
               /\ plan.to_copy = <<>> /\ plan.to_update = <<>>)
                => stats.errors = 0 /\ result

C29_ConflictsCounted ==
    (Planned /\ self.sync_mode = TWO_WAY)
        => /\ stats.conflicts = Len(plan.conflicts)
           /\ \A p \in Items(plan.conflicts) :
                  (p \in PathsOf(plan.to_update)) # (p \in Items(plan.skipped))

(***************************************************************************)
(* C30: during a run the existence checks, listings and checksum reads of  *)
(* a remote destination go over the destination's client and those of a    *)
(* remote source over the source's client, so that each reaches the tree   *)
(* of its own side, in every combination of local and remote ends.         *)
(***************************************************************************)
C30_OwnConnection ==
    pc \in {"begin", "scan", "exec"}
        => /\ self.source_type = PT_REMOTE
                => /\ SftpFor(TypeOf(SOURCE)) = "source_sftp"
                   /\ Reached(SOURCE, src, dst) = src
           /\ self.dest_type = PT_REMOTE
                => /\ SftpFor(TypeOf(DEST)) = "dest_sftp"
                   /\ Reached(DEST, src, dst) = dst

====
